---- MODULE Spec2Model ----
(***************************************************************************)
(* Model of fusion_solar_py/client.py: the FusionSolarClient session       *)
(* lifecycle (login, captcha escalation, identity and token fetch) and the *)
(* logged_in / with_solver decorators around the business operations.      *)
(*                                                                         *)
(* Every caller owns a call stack of frames.  A frame is one activation of *)
(* a python function; sig[t] says whether the top frame runs ("run"), has  *)
(* just been handed a return value ("ret") or an exception ("exc").  The   *)
(* remote portal is the environment: each request draws its response from  *)
(* a small set of responses.                                               *)
(***************************************************************************)
EXTENDS Integers, Sequences, FiniteSets, TLC

(* ---------------------------------------------------------------------- *)
(* Bounds                                                                  *)
(* ---------------------------------------------------------------------- *)
NumVals == 2

(* ---------------------------------------------------------------------- *)
(* Values                                                                  *)
(* ---------------------------------------------------------------------- *)
None == "None"
EmptyStr == ""

ValNames == <<"1", "2", "3", "4">>
MoDns == {"NE=" \o ValNames[i] : i \in 1..NumVals}
Tokens == {"tok" \o ValNames[i] : i \in 1..NumVals}
Codes == {"code" \o ValNames[i] : i \in 1..NumVals}

Callers == {1, 2}
(* the single-caller specification runs the first caller *)
MainCaller == CHOOSE t \in Callers : \A u \in Callers : t <= u

(* python truthiness of an optional string *)
Truthy(v) == v /= None /\ v /= EmptyStr

(* ---------------------------------------------------------------------- *)
(* Exceptions                                                              *)
(* ---------------------------------------------------------------------- *)
HTTPError == "HTTPError"
JSONDecodeError == "JSONDecodeError"
AuthenticationException == "AuthenticationException"
CaptchaRequiredException == "CaptchaRequiredException"
FusionSolarException == "FusionSolarException"
ValueError == "ValueError"
KeyError == "KeyError"
AttributeError == "AttributeError"

(* the except clause of logged_in.wrapper *)
LoggedInCatches_broad == {JSONDecodeError, HTTPError, FusionSolarException, ValueError}
LoggedInCatches == {JSONDecodeError, HTTPError}

(* the except clause of with_solver.wrapper *)
WithSolverCatches_none == {}
WithSolverCatches == {CaptchaRequiredException}

(* ---------------------------------------------------------------------- *)
(* Responses of the portal                                                 *)
(* ---------------------------------------------------------------------- *)
HttpStatuses == {200, 401}

(* requests.Response.raise_for_status *)
RaisesForStatus(status) == status >= 400

(* A response body is a sequence of lexical pieces. *)
WS == "ws"
ENV == "{\"data\":"
ENVSP == "{ \"data\":"
HTML == "<html>redirect</html>"
JUNK == "junk"
NOMODN == "{}}"
MoDnObj(m) == "{\"moDn\":" \o m \o "}}"
MoDnObjs == {MoDnObj(m) : m \in MoDns}
MoDnOf(piece) == CHOOSE m \in MoDns : MoDnObj(m) = piece

RECURSIVE LStrip(_)
LStrip(b) == IF Len(b) > 0 /\ Head(b) = WS THEN LStrip(Tail(b)) ELSE b

RECURSIVE RStrip(_)
RStrip(b) == IF Len(b) > 0 /\ b[Len(b)] = WS THEN RStrip(SubSeq(b, 1, Len(b) - 1)) ELSE b

(* str.strip *)
Strip(b) == RStrip(LStrip(b))

(* str.startswith on the pieces *)
StartsWith(b, piece) == Len(b) > 0 /\ b[1] = piece

(* what the portal sent: the body, stripped, starts with the envelope *)
BodyStartsWithEnvelope(b) == LET s == Strip(b) IN Len(s) > 0 /\ s[1] = ENV

(* the envelope test of _configure_session *)
HasEnvelope_nostrip(b) == StartsWith(b, ENV)
HasEnvelope_parsed(b) == StartsWith(Strip(b), ENV) \/ StartsWith(Strip(b), ENVSP)
HasEnvelope(b) == StartsWith(Strip(b), ENV)

(* r.json() of the identity response: "bad" (JSONDecodeError), or the     *)
(* parsed object, described by whether it has "data" and "moDn".           *)
IdentityJson(b) ==
    LET s == Strip(b) IN
    IF Len(s) = 2 /\ s[1] \in {ENV, ENVSP} /\ s[2] \in MoDnObjs
      THEN [ok |-> TRUE, hasMoDn |-> TRUE, moDn |-> MoDnOf(s[2])]
    ELSE IF Len(s) = 2 /\ s[1] \in {ENV, ENVSP} /\ s[2] = NOMODN
      THEN [ok |-> TRUE, hasMoDn |-> FALSE, moDn |-> None]
    ELSE [ok |-> FALSE, hasMoDn |-> FALSE, moDn |-> None]

IdentityBodies ==
    {<<>>, <<HTML>>, <<ENV, JUNK>>, <<ENV, NOMODN>>}
    \cup {<<ENV, o>> : o \in MoDnObjs}
    \cup {<<ENVSP, o>> : o \in MoDnObjs}
    \cup {<<WS, ENV, o, WS>> : o \in MoDnObjs}

(* errorMsg of the login response, as a sequence of words *)
LowerWord(w) ==
    CASE w \in {"Incorrect", "INCORRECT"} -> "incorrect"
      [] w \in {"Verification", "VERIFICATION"} -> "verification"
      [] w \in {"Code", "CODE"} -> "code"
      [] OTHER -> w

(* str.lower *)
Lower(msg) == [i \in 1..Len(msg) |-> LowerWord(msg[i])]

(* the python "in" operator on strings: msg contains phrase *)
Contains(msg, phrase) ==
    \E i \in 0..(Len(msg) - Len(phrase)) :
        \A j \in 1..Len(phrase) : msg[i + j] = phrase[j]

CaptchaPhrase == <<"incorrect", "verification", "code">>

ErrorMsgs ==
    { <<>>,
      <<"Incorrect", "verification", "code", ",", "please", "retry">>,
      <<"INCORRECT", "VERIFICATION", "CODE">>,
      <<"verification", "code", "incorrect">>,
      <<"wrong", "password">> }

(* login response bodies: unparseable, an object without errorMsg, or an   *)
(* object with errorMsg (null is the string None)                          *)
LoginBodies ==
    {[json |-> FALSE, hasMsg |-> FALSE, msg |-> <<>>, null |-> FALSE],
     [json |-> TRUE, hasMsg |-> FALSE, msg |-> <<>>, null |-> FALSE],
     [json |-> TRUE, hasMsg |-> TRUE, msg |-> <<>>, null |-> TRUE]}
    \cup {[json |-> TRUE, hasMsg |-> TRUE, msg |-> m, null |-> FALSE] : m \in ErrorMsgs}

(* the classification of the login response by _login: the value returned *)
(* or the exception raised                                                 *)
IsCaptchaError_cased(msg) == Contains(msg, CaptchaPhrase)
IsCaptchaError(msg) == Contains(Lower(msg), CaptchaPhrase)

LoginResult_noguard(status, body, allow) ==
    IF RaisesForStatus(status) THEN HTTPError
    ELSE IF ~body.json THEN JSONDecodeError
    ELSE IF ~body.hasMsg THEN KeyError
    ELSE IF body.null \/ body.msg = <<>> THEN None
    ELSE IF IsCaptchaError(body.msg) THEN CaptchaRequiredException
    ELSE AuthenticationException

LoginResult(status, body, allow) ==
    IF RaisesForStatus(status) THEN HTTPError
    ELSE IF ~body.json THEN JSONDecodeError
    ELSE IF ~body.hasMsg THEN KeyError
    ELSE IF body.null \/ body.msg = <<>> THEN None
    ELSE IF IsCaptchaError(body.msg) /\ allow THEN CaptchaRequiredException
    ELSE AuthenticationException

(* the probe page: the set of element ids it contains *)
CaptchaInputId == "verificationCodeInput"
ProbePages == {{}, {"username"}, {"username", CaptchaInputId}}

(* what the portal sent: the page shows a challenge *)
PageShowsChallenge(page) == CaptchaInputId \in page

(* soup.find(id="verificationCodeInput") *)
CaptchaExists_any(page) == page /= {}
CaptchaExists(page) == CaptchaInputId \in page

(* pre-validation bodies *)
PrevalBodies == {"success", "SUCCESS", "fail", ""}

(* r.text != "success" *)
PrevalOk_nonempty(body) == body /= ""
PrevalOk(body) == body = "success"

(* what the portal sent as pre-validation body *)
SentPreval(body) == IF body = "success" THEN "success" ELSE "fail"

(* token responses *)
TokenBodies ==
    {[json |-> FALSE, hasTok |-> FALSE, tok |-> None],
     [json |-> TRUE, hasTok |-> FALSE, tok |-> None]}
    \cup {[json |-> TRUE, hasTok |-> TRUE, tok |-> k] : k \in Tokens}

(* what the solver may return for an image *)
SolveResults == Codes \cup {None, EmptyStr}

(* business responses: unparseable, success false, no data, data without *)
(* and with the Dongle device                                             *)
BizBody(j, s, d, g) == [json |-> j, success |-> s, hasData |-> d, dongle |-> g]
BizBodies == {BizBody(FALSE, FALSE, FALSE, FALSE), BizBody(TRUE, FALSE, TRUE, FALSE),
              BizBody(TRUE, TRUE, FALSE, FALSE), BizBody(TRUE, TRUE, TRUE, FALSE),
              BizBody(TRUE, TRUE, TRUE, TRUE)}

(* ---------------------------------------------------------------------- *)
(* Operations of the client                                                *)
(* ---------------------------------------------------------------------- *)
SimpleOps == {"get_power_status", "get_station_list", "get_device_ids",
              "get_plant_flow", "get_plant_stats", "get_optimizer_stats"}
NestedOps == {"get_plant_ids", "active_power_control"}
WrappedOps == SimpleOps \cup NestedOps

(* the keys of power_setting_options, and one value that is not a key *)
PowerSettingOptions == {"No limit", "Zero Export Limitation",
                        "Limited Power Grid (kW)", "Limited Power Grid (%)"}
PowerSettings == {"No limit", "Full power"}

ArgsOf(op) == IF op = "active_power_control" THEN PowerSettings ELSE {None}

(* the outcome of the body of a simple operation for one response: the    *)
(* exception it raises, or the value it returns                            *)
BizResult(op, status, body) ==
    IF RaisesForStatus(status) THEN HTTPError
    ELSE IF ~body.json THEN JSONDecodeError
    ELSE IF op = "get_power_status"
      THEN (IF body.hasData THEN "ok" ELSE KeyError)
    ELSE IF op = "get_station_list"
      THEN (IF ~body.success THEN FusionSolarException
            ELSE IF ~body.hasData THEN KeyError ELSE "ok")
    ELSE IF op = "get_device_ids"
      THEN (IF ~body.hasData THEN KeyError
            ELSE IF body.dongle THEN "dongle" ELSE "nodongle")
    ELSE (IF ~body.success \/ ~body.hasData THEN FusionSolarException ELSE "ok")

Exceptions == {HTTPError, JSONDecodeError, AuthenticationException,
               CaptchaRequiredException, FusionSolarException, ValueError,
               KeyError, AttributeError}

(* _init_solver: the solver after the call *)
(* Solver(self._model_path, self._device): a new object on every call,   *)
(* distinct from the object cur it replaces                                *)
NewSolver(cls, cur) == IF cur = None THEN cls \o "#1" ELSE cls \o "#2"

InitSolver_rebuild(path, rt, cur) ==
    IF path = None THEN cur
    ELSE IF rt = "onnx" THEN NewSolver("onnx.Solver", cur)
    ELSE IF rt = "keras" THEN NewSolver("tf.Solver", cur)
    ELSE cur

InitSolver(path, rt, cur) ==
    IF path = None THEN cur
    ELSE IF cur /= None THEN cur
    ELSE IF rt = "onnx" THEN NewSolver("onnx.Solver", cur)
    ELSE IF rt = "keras" THEN NewSolver("tf.Solver", cur)
    ELSE cur

(* the answer class of a login response, for the record of the run *)
LoginAnswer(status, body) ==
    IF RaisesForStatus(status) THEN "http"
    ELSE IF ~body.json THEN "badjson"
    ELSE IF ~body.hasMsg THEN "nomsg"
    ELSE IF body.null \/ body.msg = <<>> THEN "empty"
    ELSE IF IsCaptchaError(body.msg) THEN "captcha"
    ELSE "other"

(* ---------------------------------------------------------------------- *)
(* State                                                                   *)
(* ---------------------------------------------------------------------- *)
VARIABLES
    obj,          \* "constructing", "ready" or "failed" (the constructor raised)
    model_path,   \* self._model_path
    runtime,      \* self._runtime
    verify_code,  \* self._verify_code
    solver,       \* self._solver
    company_id,   \* self._company_id
    roarand,      \* self._session.headers["roarand"], None when absent
    stack,        \* per caller: the call stack, top last
    sig,          \* per caller: [kind, val] control signal for the top frame
    call,         \* per caller: the operation the user called, its argument
    cnt,          \* per caller: counters of the current user call
    run,          \* per caller: record of the current/last _configure_session run
    lastReq,      \* the most recent request sent to the portal
    authTok       \* the csrfToken the portal sent to the last run that returned

vars == <<obj, model_path, runtime, verify_code, solver,
          company_id, roarand, stack, sig, call, cnt, run, lastReq, authTok>>

config == <<model_path, runtime>>

Frame(fn, pc, op, arg, allow, depth) ==
    [fn |-> fn, pc |-> pc, op |-> op, arg |-> arg, allow |-> allow, depth |-> depth]

WrapperFrame(op, arg, depth) == Frame("logged_in", "try", op, arg, TRUE, depth)
BodyFrame(op, arg, depth) == Frame("body", "start", op, arg, TRUE, depth)
CfgFrame == Frame("_configure_session", "start", None, None, TRUE, 0)
WsFrame == Frame("with_solver", "try", None, None, TRUE, 0)
LoginFrame(allow) == Frame("_login", "start", None, None, allow, 0)
CcFrame == Frame("_check_captcha", "start", None, None, TRUE, 0)
GcFrame == Frame("_get_captcha", "start", None, None, TRUE, 0)
LogOutFrame == Frame("log_out", "start", None, None, TRUE, 0)

Top(t) == stack[t][Len(stack[t])]
Rest(t) == SubSeq(stack[t], 1, Len(stack[t]) - 1)
HasTop(t, fn) == Len(stack[t]) > 0 /\ Top(t).fn = fn
TopAt(t, pc) == Rest(t) \o <<[Top(t) EXCEPT !.pc = pc]>>

Sig(kind, val) == [kind |-> kind, val |-> val]

ZeroCnt == [nCfg |-> 0, nTop |-> 0, nInner |-> 0, nBizReq |-> 0, nBizExp |-> 0,
            nBizErr |-> 0, nAuthOk |-> 0, nAuthFail |-> 0]

NoRun == [status |-> "none", exc |-> None, trace |-> <<>>,
          preCompany |-> None, preRoarand |-> None, preCode |-> None,
          preSolver |-> None]

ClosedRun == [NoRun EXCEPT !.status = "closed"]

BeginRun == [status |-> "running", exc |-> None, trace |-> <<>>,
             preCompany |-> company_id, preRoarand |-> roarand,
             preCode |-> verify_code, preSolver |-> solver]

Event(ev, arg, res) == [ev |-> ev, arg |-> arg, res |-> res]

NoReq == [kind |-> "none", op |-> None, hdr |-> None, parentDn |-> None,
          code |-> None, by |-> 0]

Req(kind, op, parentDn, code, t) ==
    [kind |-> kind, op |-> op, hdr |-> roarand, parentDn |-> parentDn,
     code |-> code, by |-> t]

(* ---------------------------------------------------------------------- *)
(* Init: __init__ up to the call of _configure_session                     *)
(* ---------------------------------------------------------------------- *)
(* the runtime selector is read only when a model path is given; without  *)
(* one it keeps its default                                                *)
Configs ==
    {[path |-> None, rt |-> "onnx"]}
    \cup {[path |-> "model.onnx", rt |-> r] : r \in {"onnx", "keras", "other"}}

(* session is None: the constructor logs in *)
InitLoggingIn ==
    /\ obj = "constructing"
    /\ stack = [t \in Callers |-> IF t = MainCaller THEN <<CfgFrame>> ELSE <<>>]
    /\ sig = [t \in Callers |->
                IF t = MainCaller THEN Sig("run", None) ELSE Sig("idle", None)]
    /\ call = [t \in Callers |->
                IF t = MainCaller THEN [op |-> "__init__", arg |-> None]
                ELSE [op |-> None, arg |-> None]]
    /\ run = [t \in Callers |->
                IF t = MainCaller THEN [NoRun EXCEPT !.status = "running"] ELSE NoRun]

(* a session was passed: no login at construction *)
InitWithSession ==
    /\ obj = "ready"
    /\ stack = [t \in Callers |-> <<>>]
    /\ sig = [t \in Callers |-> Sig("idle", None)]
    /\ call = [t \in Callers |-> [op |-> None, arg |-> None]]
    /\ run = [t \in Callers |-> NoRun]

Init ==
    /\ \E c \in Configs : model_path = c.path /\ runtime = c.rt
    /\ verify_code = None
    /\ solver = None
    /\ company_id = None
    /\ roarand = None
    /\ cnt = [t \in Callers |-> ZeroCnt]
    /\ lastReq = NoReq
    /\ authTok = None
    /\ (InitLoggingIn \/ InitWithSession)

(* ---------------------------------------------------------------------- *)
(* Helpers of the actions                                                  *)
(* ---------------------------------------------------------------------- *)
Upd(f, t, v) == [f EXCEPT ![t] = v]

Ended(t) == stack[t] = <<>> /\ sig[t].kind \in {"ret", "exc"}

IsExpiry(r) == r \in {HTTPError, JSONDecodeError}

(* the verification code a credential submission carries, and the stored  *)
(* code after the submission was prepared                                  *)
CodeSent(vc) == IF Truthy(vc) THEN vc ELSE None

CodeAfterLogin_keep(vc) == vc
CodeAfterLogin(vc) == IF Truthy(vc) THEN None ELSE vc

(* the frame f has an except clause that takes the exception e: only the  *)
(* try blocks of the two decorators have one                               *)
Handles_anypc(f, e) ==
    \/ f.fn = "logged_in" /\ e \in LoggedInCatches
    \/ f.fn = "with_solver" /\ e \in WithSolverCatches

Handles(f, e) ==
    \/ f.fn = "logged_in" /\ f.pc = "try" /\ e \in LoggedInCatches
    \/ f.fn = "with_solver" /\ f.pc = "try" /\ e \in WithSolverCatches

(* python's propagation of e: the frames without a matching except clause *)
(* are left, down to the first frame that handles e (or to the user)       *)
RECURSIVE Unwind(_, _)
Unwind(s, e) ==
    IF s = <<>> THEN s
    ELSE IF Handles(s[Len(s)], e) THEN s
    ELSE Unwind(SubSeq(s, 1, Len(s) - 1), e)

CfgOn(s) == \E i \in 1..Len(s) : s[i].fn = "_configure_session"

(* the exception leaves a _configure_session frame on its way *)
EndsRun(t, e) == CfgOn(stack[t]) /\ ~CfgOn(Unwind(Rest(t), e))

(* the top frame pops and hands v to its caller *)
Return(t, v) ==
    /\ stack' = Upd(stack, t, Rest(t))
    /\ sig' = Upd(sig, t, Sig("ret", v))

(* the top frame raises e *)
Raise(t, e) ==
    /\ stack' = Upd(stack, t, Unwind(Rest(t), e))
    /\ sig' = Upd(sig, t, Sig("exc", e))

Finish(t, r) == IF r \in Exceptions THEN Raise(t, r) ELSE Return(t, r)

(* the record of the run with one more event *)
Logged(t, ev, arg, res) == [run[t] EXCEPT !.trace = Append(@, Event(ev, arg, res))]

(* a step of the authentication that continues or returns to its caller   *)
AuthStep(t, r) ==
    /\ run' = Upd(run, t, r)
    /\ UNCHANGED cnt

(* a step of the authentication that raises e: when e leaves               *)
(* _configure_session the run is over                                      *)
AuthRaise(t, e, r) ==
    /\ Raise(t, e)
    /\ run' = Upd(run, t, IF EndsRun(t, e)
                          THEN [r EXCEPT !.status = "raised", !.exc = e] ELSE r)
    /\ cnt' = IF EndsRun(t, e)
              THEN Upd(cnt, t, [cnt[t] EXCEPT !.nAuthFail = @ + 1]) ELSE cnt

(* ---------------------------------------------------------------------- *)
(* Calls by the user of the client                                         *)
(* ---------------------------------------------------------------------- *)
CallOperation(t) ==
    /\ obj = "ready"
    /\ stack[t] = <<>>
    /\ sig[t].kind = "idle"
    /\ \E op \in WrappedOps : \E arg \in ArgsOf(op) :
         /\ stack' = Upd(stack, t, <<WrapperFrame(op, arg, 0), BodyFrame(op, arg, 0)>>)
         /\ call' = Upd(call, t, [op |-> op, arg |-> arg])
    /\ sig' = Upd(sig, t, Sig("run", None))
    /\ cnt' = Upd(cnt, t, [ZeroCnt EXCEPT !.nTop = 1])
    /\ run' = Upd(run, t, NoRun)
    /\ UNCHANGED <<authTok, obj, config, verify_code, solver, company_id, roarand, lastReq>>

CallAuthenticate(t) ==
    /\ obj = "ready"
    /\ stack[t] = <<>>
    /\ sig[t].kind = "idle"
    /\ stack' = Upd(stack, t, <<CfgFrame>>)
    /\ call' = Upd(call, t, [op |-> "_configure_session", arg |-> None])
    /\ sig' = Upd(sig, t, Sig("run", None))
    /\ cnt' = Upd(cnt, t, ZeroCnt)
    /\ run' = Upd(run, t, BeginRun)
    /\ UNCHANGED <<authTok, obj, config, verify_code, solver, company_id, roarand, lastReq>>

CallLogOut(t) ==
    /\ obj = "ready"
    /\ stack[t] = <<>>
    /\ sig[t].kind = "idle"
    /\ stack' = Upd(stack, t, <<LogOutFrame>>)
    /\ call' = Upd(call, t, [op |-> "log_out", arg |-> None])
    /\ sig' = Upd(sig, t, Sig("run", None))
    /\ cnt' = Upd(cnt, t, ZeroCnt)
    /\ run' = Upd(run, t, NoRun)
    /\ UNCHANGED <<authTok, obj, config, verify_code, solver, company_id, roarand, lastReq>>

(* the call is over: its result or its exception is with the user; for    *)
(* __init__ the object exists only when _configure_session returned        *)
CallEnds(t) ==
    /\ Ended(t)
    /\ obj' = IF obj = "constructing"
              THEN (IF sig[t].kind = "ret" THEN "ready" ELSE "failed")
              ELSE obj
    /\ sig' = Upd(sig, t, Sig("idle", None))
    /\ call' = Upd(call, t, [op |-> None, arg |-> None])
    /\ cnt' = Upd(cnt, t, ZeroCnt)
    /\ run' = Upd(run, t, NoRun)
    /\ lastReq' = NoReq
    /\ UNCHANGED <<authTok, config, verify_code, solver, company_id, roarand, stack>>

(* log_out *)
LogOut(t) ==
    /\ HasTop(t, "log_out")
    /\ sig[t].kind = "run"
    /\ lastReq' = Req("logout", "log_out", None, None, t)
    /\ Return(t, None)
    /\ UNCHANGED <<authTok, obj, config, verify_code, solver, company_id, roarand, call, cnt, run>>

(* ---------------------------------------------------------------------- *)
(* logged_in.wrapper                                                       *)
(* ---------------------------------------------------------------------- *)
(* return result *)
LoggedInReturn(t) ==
    /\ HasTop(t, "logged_in")
    /\ sig[t].kind = "ret"
    /\ Top(t).pc \in {"try", "retry"}
    /\ Return(t, sig[t].val)
    /\ UNCHANGED <<authTok, obj, config, verify_code, solver, company_id, roarand, call, cnt,
                   run, lastReq>>

(* except (JSONDecodeError, HTTPError): self._configure_session() *)
LoggedInCatch(t) ==
    /\ HasTop(t, "logged_in")
    /\ sig[t].kind = "exc"
    /\ Handles(Top(t), sig[t].val)
    /\ stack' = Upd(stack, t, TopAt(t, "cfg") \o <<CfgFrame>>)
    /\ sig' = Upd(sig, t, Sig("run", None))
    /\ cnt' = Upd(cnt, t, [cnt[t] EXCEPT !.nCfg = @ + 1])
    /\ run' = Upd(run, t, BeginRun)
    /\ UNCHANGED <<authTok, obj, config, verify_code, solver, company_id, roarand, call, lastReq>>

(* result = func(self, *args, **kwargs) of the except block; the record of *)
(* the finished run is closed                                              *)
LoggedInRetry(t) ==
    /\ HasTop(t, "logged_in")
    /\ sig[t].kind = "ret"
    /\ Top(t).pc = "cfg"
    /\ stack' = Upd(stack, t, TopAt(t, "retry")
                      \o <<BodyFrame(Top(t).op, Top(t).arg, Top(t).depth)>>)
    /\ sig' = Upd(sig, t, Sig("run", None))
    /\ cnt' = Upd(cnt, t, IF Top(t).depth = 0
                          THEN [cnt[t] EXCEPT !.nTop = @ + 1]
                          ELSE [cnt[t] EXCEPT !.nInner = @ + 1])
    /\ run' = Upd(run, t, ClosedRun)
    /\ UNCHANGED <<authTok, obj, config, verify_code, solver, company_id, roarand, call,
                   lastReq>>

(* ---------------------------------------------------------------------- *)
(* Bodies of the business operations                                       *)
(* ---------------------------------------------------------------------- *)
(* get_power_status, get_station_list, get_device_ids, get_plant_flow,    *)
(* get_plant_stats, get_optimizer_stats: one request, then the checks      *)
SimpleRequest(t) ==
    /\ HasTop(t, "body")
    /\ Top(t).op \in SimpleOps
    /\ sig[t].kind = "run"
    /\ \E status \in HttpStatuses : \E body \in BizBodies :
         LET r == BizResult(Top(t).op, status, body) IN
         /\ Finish(t, r)
         /\ cnt' = Upd(cnt, t, [cnt[t] EXCEPT
                         !.nBizReq = @ + 1,
                         !.nBizExp = @ + (IF IsExpiry(r) THEN 1 ELSE 0),
                         !.nBizErr = @ + (IF r \in Exceptions /\ ~IsExpiry(r) THEN 1 ELSE 0)])
    /\ lastReq' = Req("biz", Top(t).op,
                      IF Top(t).op = "get_device_ids" THEN company_id ELSE None,
                      None, t)
    /\ UNCHANGED <<authTok, obj, config, verify_code, solver, company_id, roarand, call, run>>

(* get_plant_ids: station_list = self.get_station_list() *)
PlantIdsCall(t) ==
    /\ HasTop(t, "body")
    /\ Top(t).op = "get_plant_ids"
    /\ Top(t).pc = "start"
    /\ sig[t].kind = "run"
    /\ stack' = Upd(stack, t, TopAt(t, "wait")
                      \o <<WrapperFrame("get_station_list", None, 1),
                           BodyFrame("get_station_list", None, 1)>>)
    /\ sig' = Upd(sig, t, Sig("run", None))
    /\ cnt' = Upd(cnt, t, [cnt[t] EXCEPT !.nInner = @ + 1])
    /\ UNCHANGED <<authTok, obj, config, verify_code, solver, company_id, roarand, call, run,
                   lastReq>>

(* get_plant_ids: return plant_ids *)
PlantIdsReturn(t) ==
    /\ HasTop(t, "body")
    /\ Top(t).op = "get_plant_ids"
    /\ Top(t).pc = "wait"
    /\ sig[t].kind = "ret"
    /\ Return(t, "ok")
    /\ UNCHANGED <<authTok, obj, config, verify_code, solver, company_id, roarand, call, cnt,
                   run, lastReq>>

(* active_power_control: the check of power_setting, then get_device_ids  *)
ApcStart(t) ==
    /\ HasTop(t, "body")
    /\ Top(t).op = "active_power_control"
    /\ Top(t).pc = "start"
    /\ sig[t].kind = "run"
    /\ IF Top(t).arg \notin PowerSettingOptions
       THEN /\ Raise(t, ValueError)
            /\ cnt' = Upd(cnt, t, [cnt[t] EXCEPT !.nBizErr = @ + 1])
       ELSE /\ stack' = Upd(stack, t, TopAt(t, "wait")
                              \o <<WrapperFrame("get_device_ids", None, 1),
                                   BodyFrame("get_device_ids", None, 1)>>)
            /\ sig' = Upd(sig, t, Sig("run", None))
            /\ cnt' = Upd(cnt, t, [cnt[t] EXCEPT !.nInner = @ + 1])
    /\ UNCHANGED <<authTok, obj, config, verify_code, solver, company_id, roarand, call, run,
                   lastReq>>

(* active_power_control: device_key["Dongle"], then the post request *)
ApcPost(t) ==
    /\ HasTop(t, "body")
    /\ Top(t).op = "active_power_control"
    /\ Top(t).pc = "wait"
    /\ sig[t].kind = "ret"
    /\ IF sig[t].val = "nodongle"
       THEN /\ Raise(t, KeyError)
            /\ cnt' = Upd(cnt, t, [cnt[t] EXCEPT !.nBizErr = @ + 1])
            /\ UNCHANGED lastReq
       ELSE /\ \E status \in HttpStatuses :
                 LET r == IF RaisesForStatus(status) THEN HTTPError ELSE None IN
                 /\ Finish(t, r)
                 /\ cnt' = Upd(cnt, t, [cnt[t] EXCEPT
                                 !.nBizReq = @ + 1,
                                 !.nBizExp = @ + (IF IsExpiry(r) THEN 1 ELSE 0)])
            /\ lastReq' = Req("biz", "active_power_control", None, None, t)
    /\ UNCHANGED <<authTok, obj, config, verify_code, solver, company_id, roarand, call, run>>

(* ---------------------------------------------------------------------- *)
(* _configure_session                                                      *)
(* ---------------------------------------------------------------------- *)
(* the outcome of the identity step for one response: an exception, or    *)
(* the company id that is stored                                           *)
IdentityResult(status, body) ==
    IF RaisesForStatus(status) THEN HTTPError
    ELSE IF ~HasEnvelope(body) THEN AuthenticationException
    ELSE IF ~IdentityJson(body).ok THEN JSONDecodeError
    ELSE IF ~IdentityJson(body).hasMoDn THEN KeyError
    ELSE IdentityJson(body).moDn

(* what the portal sent as identity response *)
SentIdentity(status, body) ==
    IF RaisesForStatus(status) THEN "http"
    ELSE IF BodyStartsWithEnvelope(body) THEN "envelope" ELSE "noenvelope"

(* the outcome of the token step for one response *)
TokenResult(status, body) ==
    IF RaisesForStatus(status) THEN HTTPError
    ELSE IF ~body.json THEN JSONDecodeError
    ELSE IF ~body.hasTok THEN KeyError
    ELSE body.tok

(* self._company_id = r.json()["data"]["moDn"] *)
StoredCompany_keep(old, new) == old
StoredCompany(old, new) == new

(* self._session.headers["roarand"] = r.json()["csrfToken"] *)
StoredToken_keep(old, new) == old
StoredToken(old, new) == new

(* self._login() *)
CfgLogin(t) ==
    /\ HasTop(t, "_configure_session")
    /\ Top(t).pc = "start"
    /\ sig[t].kind = "run"
    /\ stack' = Upd(stack, t, TopAt(t, "login") \o <<WsFrame, LoginFrame(TRUE)>>)
    /\ sig' = Upd(sig, t, Sig("run", None))
    /\ UNCHANGED <<authTok, obj, config, verify_code, solver, company_id, roarand, call, cnt,
                   run, lastReq>>

(* get the main id: the request, the envelope test, self._company_id = .. *)
CfgIdentity(t) ==
    /\ HasTop(t, "_configure_session")
    /\ Top(t).pc = "login"
    /\ sig[t].kind = "ret"
    /\ lastReq' = Req("identity", None, None, None, t)
    /\ \E status \in HttpStatuses : \E body \in IdentityBodies :
         LET r == IdentityResult(status, body) IN
         IF r \in Exceptions
         THEN /\ AuthRaise(t, r, Logged(t, "identity", SentIdentity(status, body), r))
              /\ UNCHANGED company_id
         ELSE /\ company_id' = StoredCompany(company_id, r)
              /\ stack' = Upd(stack, t, TopAt(t, "token"))
              /\ sig' = Upd(sig, t, Sig("run", None))
              /\ AuthStep(t, Logged(t, "identity", SentIdentity(status, body), r))
    /\ UNCHANGED <<authTok, obj, config, verify_code, solver, roarand, call>>

(* get the roarand: the request, self._session.headers["roarand"] = ..    *)
CfgToken(t) ==
    /\ HasTop(t, "_configure_session")
    /\ Top(t).pc = "token"
    /\ sig[t].kind = "run"
    /\ lastReq' = Req("token", None, None, None, t)
    /\ \E status \in HttpStatuses : \E body \in TokenBodies :
         LET r == TokenResult(status, body) IN
         IF r \in Exceptions
         THEN /\ AuthRaise(t, r, Logged(t, "token", None, r))
              /\ UNCHANGED <<roarand, authTok>>
         ELSE /\ roarand' = StoredToken(roarand, r)
              /\ authTok' = body.tok
              /\ Return(t, None)
              /\ run' = Upd(run, t, [Logged(t, "token", None, r)
                                       EXCEPT !.status = "returned"])
              /\ cnt' = Upd(cnt, t, [cnt[t] EXCEPT !.nAuthOk = @ + 1])
    /\ UNCHANGED <<obj, config, verify_code, solver, company_id, call>>

(* ---------------------------------------------------------------------- *)
(* with_solver.wrapper and _login                                          *)
(* ---------------------------------------------------------------------- *)
(* the test of the verify code after the check: resubmit or give up *)
HasVerifyCode_truthy(vc) == Truthy(vc)
HasVerifyCode(vc) == vc /= None

(* func is called again only when the check found a challenge and left a  *)
(* code: otherwise one of the two AuthenticationExceptions is raised       *)
Resubmits_always(present, vc) == TRUE
Resubmits(present, vc) == present = "True" /\ HasVerifyCode(vc)

(* return result *)
WsReturn(t) ==
    /\ HasTop(t, "with_solver")
    /\ sig[t].kind = "ret"
    /\ Top(t).pc \in {"try", "retry"}
    /\ Return(t, sig[t].val)
    /\ UNCHANGED <<authTok, obj, config, verify_code, solver, company_id, roarand, call, cnt,
                   run, lastReq>>

(* except CaptchaRequiredException: the flag, the cleared code, the check *)
WsCatch(t) ==
    /\ HasTop(t, "with_solver")
    /\ sig[t].kind = "exc"
    /\ Handles(Top(t), sig[t].val)
    /\ verify_code' = None
    /\ stack' = Upd(stack, t, Rest(t)
                      \o <<[Top(t) EXCEPT !.pc = "check", !.allow = FALSE], CcFrame>>)
    /\ sig' = Upd(sig, t, Sig("run", None))
    /\ UNCHANGED <<authTok, obj, config, solver, company_id, roarand, call, cnt, run, lastReq>>

(* after self._check_captcha(): raise, or call func again *)
WsAfterCheck(t) ==
    /\ HasTop(t, "with_solver")
    /\ Top(t).pc = "check"
    /\ sig[t].kind = "ret"
    /\ IF Resubmits(sig[t].val, verify_code)
       THEN /\ stack' = Upd(stack, t, TopAt(t, "retry") \o <<LoginFrame(Top(t).allow)>>)
            /\ sig' = Upd(sig, t, Sig("run", None))
            /\ AuthStep(t, run[t])
       ELSE AuthRaise(t, AuthenticationException, run[t])
    /\ UNCHANGED <<authTok, obj, config, verify_code, solver, company_id, roarand, call, lastReq>>

(* _login: the credential submission and the test of errorMsg *)
LoginSubmit(t) ==
    /\ HasTop(t, "_login")
    /\ sig[t].kind = "run"
    /\ verify_code' = CodeAfterLogin(verify_code)
    /\ lastReq' = Req("login", None, None, CodeSent(verify_code), t)
    /\ \E status \in HttpStatuses : \E body \in LoginBodies :
         LET r == LoginResult(status, body, Top(t).allow)
             rec == Logged(t, "login", CodeSent(verify_code), LoginAnswer(status, body))
         IN IF r \in Exceptions
            THEN AuthRaise(t, r, rec)
            ELSE Return(t, r) /\ AuthStep(t, rec)
    /\ UNCHANGED <<authTok, obj, config, solver, company_id, roarand, call>>

(* ---------------------------------------------------------------------- *)
(* _check_captcha, _get_captcha, _init_solver                              *)
(* ---------------------------------------------------------------------- *)
SentPage(page) == IF PageShowsChallenge(page) THEN "challenge" ELSE "nochallenge"

(* the probe request and soup.find *)
CcProbe(t) ==
    /\ HasTop(t, "_check_captcha")
    /\ Top(t).pc = "start"
    /\ sig[t].kind = "run"
    /\ lastReq' = Req("probe", None, None, None, t)
    /\ \E status \in HttpStatuses : \E page \in ProbePages :
         IF RaisesForStatus(status)
         THEN AuthRaise(t, HTTPError, Logged(t, "probe", None, "http"))
         ELSE IF CaptchaExists(page)
         THEN /\ stack' = Upd(stack, t, TopAt(t, "image") \o <<GcFrame>>)
              /\ sig' = Upd(sig, t, Sig("run", None))
              /\ AuthStep(t, Logged(t, "probe", None, SentPage(page)))
         ELSE /\ Return(t, "False")
              /\ AuthStep(t, Logged(t, "probe", None, SentPage(page)))
    /\ UNCHANGED <<authTok, obj, config, verify_code, solver, company_id, roarand, call>>

(* _get_captcha *)
GetCaptcha(t) ==
    /\ HasTop(t, "_get_captcha")
    /\ sig[t].kind = "run"
    /\ lastReq' = Req("image", None, None, None, t)
    /\ \E status \in HttpStatuses :
         IF RaisesForStatus(status)
         THEN AuthRaise(t, HTTPError, Logged(t, "image", None, "http"))
         ELSE /\ Return(t, "image")
              /\ AuthStep(t, Logged(t, "image", None, "ok"))
    /\ UNCHANGED <<authTok, obj, config, verify_code, solver, company_id, roarand, call>>

(* self._init_solver(); self._verify_code = self._solver.solve_captcha(..) *)
CcSolve(t) ==
    /\ HasTop(t, "_check_captcha")
    /\ Top(t).pc = "image"
    /\ sig[t].kind = "ret"
    /\ solver' = InitSolver(model_path, runtime, solver)
    /\ IF solver' = None
       THEN /\ AuthRaise(t, AttributeError, Logged(t, "solve", None, AttributeError))
            /\ UNCHANGED verify_code
       ELSE \E c \in SolveResults :
            /\ verify_code' = c
            /\ stack' = Upd(stack, t, TopAt(t, "preval"))
            /\ sig' = Upd(sig, t, Sig("run", None))
            /\ AuthStep(t, Logged(t, "solve", solver', c))
    /\ UNCHANGED <<authTok, obj, config, company_id, roarand, call, lastReq>>

(* the pre-validation request and the test of its body *)
CcPreval(t) ==
    /\ HasTop(t, "_check_captcha")
    /\ Top(t).pc = "preval"
    /\ sig[t].kind = "run"
    /\ lastReq' = Req("preval", None, None, verify_code, t)
    /\ \E status \in HttpStatuses : \E body \in PrevalBodies :
         IF RaisesForStatus(status)
         THEN AuthRaise(t, HTTPError, Logged(t, "preval", verify_code, "http"))
         ELSE IF ~PrevalOk(body)
         THEN AuthRaise(t, AuthenticationException,
                        Logged(t, "preval", verify_code, SentPreval(body)))
         ELSE /\ Return(t, "True")
              /\ AuthStep(t, Logged(t, "preval", verify_code, SentPreval(body)))
    /\ UNCHANGED <<authTok, obj, config, verify_code, solver, company_id, roarand, call>>

(* ---------------------------------------------------------------------- *)
(* Specification: one caller uses the client                               *)
(* ---------------------------------------------------------------------- *)
Step(t) ==
    \/ CallOperation(t)
    \/ CallAuthenticate(t)
    \/ CallLogOut(t)
    \/ CallEnds(t)
    \/ LogOut(t)
    \/ LoggedInReturn(t)
    \/ LoggedInCatch(t)
    \/ LoggedInRetry(t)
    \/ SimpleRequest(t)
    \/ PlantIdsCall(t)
    \/ PlantIdsReturn(t)
    \/ ApcStart(t)
    \/ ApcPost(t)
    \/ CfgLogin(t)
    \/ CfgIdentity(t)
    \/ CfgToken(t)
    \/ WsReturn(t)
    \/ WsCatch(t)
    \/ WsAfterCheck(t)
    \/ LoginSubmit(t)
    \/ CcProbe(t)
    \/ GetCaptcha(t)
    \/ CcSolve(t)
    \/ CcPreval(t)

Next == Step(MainCaller)

Spec == Init /\ [][Next]_vars

(* a call in progress keeps running: the interpreter takes the next step   *)
(* of the caller and every request it sent returns                         *)
Running(t) == stack[t] /= <<>>

CallStep(t) == Running(t) /\ Step(t)

(* termination is checked for the clients of the default runtime, with    *)
(* and without a solver model                                              *)
FairInit == Init /\ runtime = "onnx"

FairSpec == FairInit /\ [][Next]_vars /\ WF_vars(CallStep(MainCaller))

(* ---------------------------------------------------------------------- *)
(* Specification: two callers (threads) use the same client; the client   *)
(* holds no lock, so their steps interleave at every request. While both  *)
(* callers are in a call, the client has no solver model and the calls are *)
(* get_power_status calls whose re-authentication meets no captcha demand; *)
(* a caller that is alone does everything the client offers.               *)
(* ---------------------------------------------------------------------- *)
Other(t) == CHOOSE u \in Callers : u /= t

Active(t) == sig[t].kind /= "idle"

Plain(t) ==
    /\ call[t].op \in {None, "get_power_status"}
    /\ \A i \in 1..Len(run[t].trace) :
         /\ run[t].trace[i].ev \in {"login", "identity", "token"}
         /\ run[t].trace[i].res /= "captcha"

BothActive == \A t \in Callers : Active(t)

Paired == BothActive => model_path = None /\ \A u \in Callers : Plain(u)

ConcNext ==
    \E t \in Callers :
        \/ CallOperation(t) /\ Paired'
        \/ CallAuthenticate(t) /\ Paired'
        \/ CallLogOut(t) /\ Paired'
        \/ CallEnds(t) /\ Paired'
        \/ LogOut(t) /\ Paired'
        \/ LoggedInReturn(t) /\ Paired'
        \/ LoggedInCatch(t) /\ Paired'
        \/ LoggedInRetry(t) /\ Paired'
        \/ SimpleRequest(t) /\ Paired'
        \/ PlantIdsCall(t) /\ Paired'
        \/ PlantIdsReturn(t) /\ Paired'
        \/ ApcStart(t) /\ Paired'
        \/ ApcPost(t) /\ Paired'
        \/ CfgLogin(t) /\ Paired'
        \/ CfgIdentity(t) /\ Paired'
        \/ CfgToken(t) /\ Paired'
        \/ WsReturn(t) /\ Paired'
        \/ WsCatch(t) /\ Paired'
        \/ WsAfterCheck(t) /\ Paired'
        \/ LoginSubmit(t) /\ Paired'
        \/ CcProbe(t) /\ Paired'
        \/ GetCaptcha(t) /\ Paired'
        \/ CcSolve(t) /\ Paired'
        \/ CcPreval(t) /\ Paired'

ConcSpec == Init /\ [][ConcNext]_vars

(* ---------------------------------------------------------------------- *)
(* Vocabulary of the claims                                                *)
(* ---------------------------------------------------------------------- *)
Tr(t) == run[t].trace
EvIdx(t, ev) == {i \in 1..Len(Tr(t)) : Tr(t)[i].ev = ev}
Count(t, ev) == Cardinality(EvIdx(t, ev))
EvNames(t) == [i \in 1..Len(Tr(t)) |-> Tr(t)[i].ev]
RunOver(t) == run[t].status \in {"returned", "raised"}
RunRaised(t, e) == run[t].status = "raised" /\ run[t].exc = e
Saw(t, ev, res) == \E i \in EvIdx(t, ev) : Tr(t)[i].res = res

(* all business requests of the current user call failed with a           *)
(* session-expiry error, nothing else went wrong in a body and no          *)
(* re-authentication failed                                                *)
AllBizExpired(t) ==
    /\ call[t].op \in WrappedOps
    /\ cnt[t].nBizReq >= 1
    /\ cnt[t].nBizExp = cnt[t].nBizReq
    /\ cnt[t].nBizErr = 0
    /\ cnt[t].nAuthFail = 0

(* ---------------------------------------------------------------------- *)
(* C1: in one user call of a wrapped operation in which every business     *)
(* request fails with a session-expiry error, _configure_session runs at   *)
(* most once, the called operation executes at most twice, and when the    *)
(* re-authentication returned the call ends with the expiry error of the   *)
(* second execution.                                                       *)
(* ---------------------------------------------------------------------- *)
C1_AtMostOneRetry ==
    \A t \in Callers :
        AllBizExpired(t) =>
            /\ cnt[t].nCfg <= 1
            /\ cnt[t].nTop <= 2
            /\ (Ended(t) =>
                    /\ sig[t].kind = "exc"
                    /\ IsExpiry(sig[t].val)
                    /\ cnt[t].nTop = 2)

(* the same statement for the operations that call no other wrapped one *)
C1_SimpleOpsOneRetry ==
    \A t \in Callers :
        AllBizExpired(t) /\ call[t].op \in SimpleOps =>
            /\ cnt[t].nCfg <= 1
            /\ cnt[t].nTop <= 2
            /\ cnt[t].nBizReq <= 2
            /\ (Ended(t) =>
                    /\ sig[t].kind = "exc"
                    /\ IsExpiry(sig[t].val)
                    /\ cnt[t].nTop = 2)

(* what the nested operations do instead: up to three re-authentications  *)
(* and four executions of the inner operation                              *)
C1_NestedBound ==
    \A t \in Callers :
        /\ cnt[t].nCfg <= 3
        /\ cnt[t].nTop <= 2
        /\ cnt[t].nInner <= 4

C1_NestedWorstCase ==
    \E t \in Callers :
        /\ AllBizExpired(t)
        /\ call[t].op = "get_plant_ids"
        /\ Ended(t)
        /\ cnt[t].nCfg = 3
        /\ cnt[t].nBizReq = 4

C1_NestedWorstCaseNever == ~C1_NestedWorstCase

(* ---------------------------------------------------------------------- *)
(* C2: captcha escalation happens at most once per _configure_session run. *)
(* ---------------------------------------------------------------------- *)
LoginIdx(t) == EvIdx(t, "login")
AllLoginsAnswered(t, res) == \A i \in LoginIdx(t) : Tr(t)[i].res = res

(* the run is over, the login endpoint answered every submission with the *)
(* incorrect-verification-code error, the probe showed a challenge and the *)
(* pre-validation succeeded                                                *)
AlwaysCaptchaRun(t) ==
    /\ RunOver(t)
    /\ LoginIdx(t) /= {}
    /\ AllLoginsAnswered(t, "captcha")
    /\ Saw(t, "probe", "challenge")
    /\ Saw(t, "preval", "success")

(* C2 as stated: such a run raises AuthenticationException after exactly  *)
(* two credential submissions and exactly one probe and one solve.         *)
C2_ExactlyTwoSubmissions ==
    \A t \in Callers :
        AlwaysCaptchaRun(t) =>
            /\ RunRaised(t, AuthenticationException)
            /\ Count(t, "login") = 2
            /\ Count(t, "probe") = 1
            /\ Count(t, "solve") = 1

(* C2 amended: no run submits the credentials more than twice or probes   *)
(* or solves more than once; a run against the always-captcha server       *)
(* raises AuthenticationException after exactly one probe and one solve,   *)
(* after two submissions when the solver returned a value and after one    *)
(* when it returned None.                                                  *)
C2_EscalationOnce ==
    \A t \in Callers :
        /\ Count(t, "login") <= 2
        /\ Count(t, "probe") <= 1
        /\ Count(t, "solve") <= 1
        /\ (AlwaysCaptchaRun(t) =>
               /\ RunRaised(t, AuthenticationException)
               /\ Count(t, "probe") = 1
               /\ Count(t, "solve") = 1
               /\ Count(t, "login") = (IF Saw(t, "solve", None) THEN 1 ELSE 2))

C2_TwoSubmissionsThenRaise ==
    \E t \in Callers :
        /\ AlwaysCaptchaRun(t)
        /\ RunRaised(t, AuthenticationException)
        /\ Count(t, "login") = 2
        /\ ~Saw(t, "solve", None)

(* ---------------------------------------------------------------------- *)
(* C3: without a model path, a run whose probe shows a challenge (and      *)
(* whose challenge image was fetched) ends with AuthenticationException    *)
(* and no solve is attempted on the missing solver.                        *)
(* ---------------------------------------------------------------------- *)
C3_NoSolverFailsFast ==
    \A t \in Callers :
        (RunOver(t) /\ model_path = None
           /\ Saw(t, "probe", "challenge") /\ Saw(t, "image", "ok")) =>
            /\ RunRaised(t, AuthenticationException)
            /\ Count(t, "solve") = 0

(* ---------------------------------------------------------------------- *)
(* C4: verification codes are single-use: after a credential submission    *)
(* that carried a code the stored code is empty, and two submissions of a  *)
(* run that carry a code have a solve between them.                        *)
(* ---------------------------------------------------------------------- *)
CarriesCode(t, i) == Tr(t)[i].ev = "login" /\ Tr(t)[i].arg /= None

C4_CodeSingleUse ==
    /\ (lastReq.kind = "login" /\ lastReq.code /= None => verify_code = None)
    /\ \A t \in Callers :
         \A i, j \in LoginIdx(t) :
            (i < j /\ CarriesCode(t, i) /\ CarriesCode(t, j)) =>
                \E k \in EvIdx(t, "solve") : i < k /\ k < j

C4_CodeSubmitted ==
    /\ lastReq.kind = "login"
    /\ lastReq.code \in Codes
    /\ verify_code = None
    /\ \E t \in Callers : Count(t, "login") = 2 /\ Count(t, "solve") = 1

(* ---------------------------------------------------------------------- *)
(* C5: in a run in which no probe response shows the challenge element,    *)
(* no solve is attempted and the solver is the one of the start of the run.*)
(* ---------------------------------------------------------------------- *)
C5_NoChallengeNoSolver ==
    \A t \in Callers :
        (run[t].status \in {"running", "returned", "raised"}
           /\ ~Saw(t, "probe", "challenge")) =>
            /\ Count(t, "solve") = 0
            /\ Count(t, "image") = 0
            /\ solver = run[t].preSolver

C5_ProbedWithoutChallenge ==
    \E t \in Callers :
        /\ RunOver(t)
        /\ Saw(t, "probe", "nochallenge")
        /\ model_path /= None
        /\ solver = None

(* ---------------------------------------------------------------------- *)
(* C6: no call and no _configure_session run ends with                     *)
(* CaptchaRequiredException; a run whose second submission is answered     *)
(* with the incorrect-verification-code error raises                       *)
(* AuthenticationException.                                                *)
(* ---------------------------------------------------------------------- *)
C6_CaptchaSignalInternal ==
    \A t \in Callers :
        /\ (Ended(t) /\ sig[t].kind = "exc" => sig[t].val /= CaptchaRequiredException)
        /\ (run[t].status = "raised" => run[t].exc /= CaptchaRequiredException)
        /\ (Len(stack[t]) > 0 /\ sig[t].kind = "exc"
              /\ sig[t].val = CaptchaRequiredException => Top(t).fn = "with_solver")
        /\ (RunOver(t) /\ Count(t, "login") = 2
              /\ Tr(t)[Len(Tr(t))].ev = "login" /\ Tr(t)[Len(Tr(t))].res = "captcha"
              => RunRaised(t, AuthenticationException))

C6_SecondDemandSurfaces ==
    \E t \in Callers :
        /\ Ended(t)
        /\ sig[t].kind = "exc"
        /\ sig[t].val = AuthenticationException
        /\ Count(t, "login") = 2
        /\ AllLoginsAnswered(t, "captcha")

(* ---------------------------------------------------------------------- *)
(* C7: a run that returned and whose first credential submission was       *)
(* answered with the incorrect-verification-code error performed, in this  *)
(* order: submission, probe, image fetch, solve, pre-validation,           *)
(* resubmission carrying the solved code, identity fetch, token fetch; and *)
(* the company id and the token header are populated.                      *)
(* ---------------------------------------------------------------------- *)
EscalationOrder ==
    <<"login", "probe", "image", "solve", "preval", "login", "identity", "token">>

EscalatedAndReturned(t) ==
    /\ run[t].status = "returned"
    /\ Len(Tr(t)) >= 1
    /\ Tr(t)[1].ev = "login"
    /\ Tr(t)[1].res = "captcha"

C7_EscalationOrder ==
    \A t \in Callers :
        EscalatedAndReturned(t) =>
            /\ EvNames(t) = EscalationOrder
            /\ Tr(t)[6].res = "empty"
            /\ Tr(t)[6].arg = Tr(t)[4].res
            /\ company_id /= None
            /\ roarand /= None

(* what holds of the code: the order, and the resubmission carries the     *)
(* solved code unless that code is the empty string                        *)
C7_OrderWithNonEmptyCode ==
    \A t \in Callers :
        EscalatedAndReturned(t) =>
            /\ EvNames(t) = EscalationOrder
            /\ Tr(t)[6].res = "empty"
            /\ Tr(t)[6].arg = CodeSent(Tr(t)[4].res)
            /\ Tr(t)[4].res /= None
            /\ company_id /= None
            /\ roarand /= None

(* ---------------------------------------------------------------------- *)
(* C8: when a run returned, the company id is the moDn of its identity     *)
(* response and the roarand header is the csrfToken of its token response; *)
(* every business request carries the csrfToken of the last run that       *)
(* returned.                                                               *)
(* ---------------------------------------------------------------------- *)
C8_SessionFromResponses ==
    /\ \A t \in Callers :
         run[t].status = "returned" =>
            LET n == Len(Tr(t)) IN
            /\ n >= 3
            /\ Tr(t)[n - 1].ev = "identity"
            /\ Tr(t)[n - 1].res \in MoDns
            /\ company_id = Tr(t)[n - 1].res
            /\ Tr(t)[n].ev = "token"
            /\ Tr(t)[n].res \in Tokens
            /\ roarand = Tr(t)[n].res
    /\ (lastReq.kind = "biz" => lastReq.hdr = authTok)

C8_RequestAfterReauth ==
    \E t \in Callers :
        /\ lastReq.kind = "biz"
        /\ lastReq.hdr \in Tokens
        /\ cnt[t].nAuthOk = 1
        /\ company_id \in MoDns

(* ---------------------------------------------------------------------- *)
(* C9: when the identity response (non-error status) has a body that,      *)
(* stripped, does not start with the envelope, the run raises              *)
(* AuthenticationException, sends no token request and leaves the company  *)
(* id and the token header as they were at the start of the run.           *)
(* ---------------------------------------------------------------------- *)
C9_BadEnvelopeRaises ==
    \A t \in Callers :
        \A i \in EvIdx(t, "identity") :
            Tr(t)[i].arg = "noenvelope" =>
                /\ i = Len(Tr(t))
                /\ RunRaised(t, AuthenticationException)
                /\ Count(t, "token") = 0
                /\ lastReq.kind = "identity"
                /\ company_id = run[t].preCompany
                /\ roarand = run[t].preRoarand

C9_BadEnvelopeSeen ==
    \E t \in Callers :
        /\ Saw(t, "identity", AuthenticationException)
        /\ Tr(t)[Len(Tr(t))].arg = "noenvelope"
        /\ run[t].preCompany \in MoDns
        /\ Ended(t)

(* ---------------------------------------------------------------------- *)
(* C10: a business-level error (FusionSolarException, ValueError) ends     *)
(* the user call at once with that error: no re-authentication and no      *)
(* execution follows it, also when it is raised by the inner operation of  *)
(* a nested one; without an earlier session-expiry error the call made no  *)
(* re-authentication and executed each operation once.                     *)
(* ---------------------------------------------------------------------- *)
BusinessErrors == {FusionSolarException, ValueError}

C10_BusinessErrorNoRetry ==
    \A t \in Callers :
        /\ (cnt[t].nBizErr >= 1 =>
               /\ Ended(t)
               /\ sig[t].kind = "exc"
               /\ sig[t].val \in BusinessErrors \cup {KeyError}
               /\ cnt[t].nBizErr = 1)
        /\ (cnt[t].nBizErr >= 1 /\ cnt[t].nBizExp = 0 =>
               /\ cnt[t].nCfg = 0
               /\ cnt[t].nTop = 1
               /\ cnt[t].nInner <= 1
               /\ cnt[t].nBizReq <= 1)
        /\ (Ended(t) /\ sig[t].kind = "exc" /\ sig[t].val \in BusinessErrors =>
               cnt[t].nBizErr = 1)

C10_NestedBusinessError ==
    \E t \in Callers :
        /\ Ended(t)
        /\ call[t].op = "get_plant_ids"
        /\ sig[t].kind = "exc"
        /\ sig[t].val = FusionSolarException
        /\ cnt[t].nCfg = 0
        /\ cnt[t].nInner = 1

(* ---------------------------------------------------------------------- *)
(* C11: when the re-authentication started by a business operation fails   *)
(* (AuthenticationException, or an HTTP/JSON error of one of its           *)
(* requests), the user call is over with that failure: nothing is executed *)
(* again and no other re-authentication follows, also for nested           *)
(* operations.                                                             *)
(* ---------------------------------------------------------------------- *)
AuthFailures == {AuthenticationException, HTTPError, JSONDecodeError}

C11_FailedReauthSurfaces ==
    \A t \in Callers :
        (call[t].op \in WrappedOps /\ run[t].status = "raised"
           /\ run[t].exc \in AuthFailures) =>
            /\ Ended(t)
            /\ sig[t].kind = "exc"
            /\ sig[t].val = run[t].exc
            /\ cnt[t].nAuthFail = 1

(* what holds of the code: operations that send their request themselves   *)
(* surface every failure of the re-authentication, and every operation     *)
(* surfaces an AuthenticationException                                     *)
C11_SurfacesUnlessNestedExpiry ==
    \A t \in Callers :
        (call[t].op \in WrappedOps /\ run[t].status = "raised"
           /\ (call[t].op \in SimpleOps \/ ~IsExpiry(run[t].exc))) =>
            /\ Ended(t)
            /\ sig[t].kind = "exc"
            /\ sig[t].val = run[t].exc

(* ---------------------------------------------------------------------- *)
(* C12: whatever the portal answers, every call in progress eventually     *)
(* ends (returns or raises), and it does so within a bounded number of     *)
(* requests: at most 3 authentication runs of at most 8 steps each and at *)
(* most 6 business requests.                                               *)
(* ---------------------------------------------------------------------- *)
RequestsBounded(t) ==
    /\ cnt[t].nCfg <= 3
    /\ cnt[t].nBizReq <= 6
    /\ Len(Tr(t)) <= 8

C12_Terminates ==
    /\ [](\A t \in Callers : RequestsBounded(t))
    /\ Running(MainCaller) ~> Ended(MainCaller)

C12_LongestCallEnded ==
    \E t \in Callers :
        /\ Ended(t)
        /\ cnt[t].nCfg = 3
        /\ cnt[t].nBizReq >= 4

(* ---------------------------------------------------------------------- *)
(* C13: in every run the probe of the pre-login page comes before the      *)
(* first credential submission, and a submission that follows a probe      *)
(* showing no challenge carries no verification code.                      *)
(* ---------------------------------------------------------------------- *)
C13_ProbeBeforeLogin ==
    \A t \in Callers :
        \A i \in EvIdx(t, "login") :
            /\ \E j \in EvIdx(t, "probe") : j < i
            /\ \A j \in EvIdx(t, "probe") :
                 (j < i /\ Tr(t)[j].res = "nochallenge") => Tr(t)[i].arg = None

(* what the code does: every run starts with a credential submission, and  *)
(* a probe is made only after a submission was answered with the           *)
(* incorrect-verification-code error                                       *)
C13_LoginBeforeProbe ==
    \A t \in Callers :
        /\ (Len(Tr(t)) >= 1 => Tr(t)[1].ev = "login")
        /\ \A j \in EvIdx(t, "probe") :
             j = 2 /\ Tr(t)[1].res = "captcha"

(* ---------------------------------------------------------------------- *)
(* C14: when the pre-validation answers (non-error status) with a body     *)
(* other than the literal "success", the run raises                        *)
(* AuthenticationException, which ends the call, and the pre-validation is *)
(* the last request: no submission, identity or token request follows it.  *)
(* ---------------------------------------------------------------------- *)
C14_PrevalFailureRaises ==
    \A t \in Callers :
        \A i \in EvIdx(t, "preval") :
            Tr(t)[i].res = "fail" =>
                /\ i = Len(Tr(t))
                /\ RunRaised(t, AuthenticationException)
                /\ Ended(t)
                /\ sig[t] = Sig("exc", AuthenticationException)
                /\ lastReq.kind = "preval"

C14_PrevalFailedInNestedCall ==
    \E t \in Callers :
        /\ Saw(t, "preval", "fail")
        /\ call[t].op \in NestedOps
        /\ Ended(t)

(* ---------------------------------------------------------------------- *)
(* C15: when a submission was answered with the incorrect-verification-    *)
(* code error and the probe that follows shows no challenge, the run made  *)
(* one submission and one probe and nothing else, and it does not return:  *)
(* it ends with AuthenticationException.                                   *)
(* ---------------------------------------------------------------------- *)
C15_NoChallengeAfterDemand ==
    \A t \in Callers :
        Saw(t, "probe", "nochallenge") =>
            /\ EvNames(t) = <<"login", "probe">>
            /\ Tr(t)[1].res = "captcha"
            /\ run[t].status \in {"running", "raised"}
            /\ (RunOver(t) => RunRaised(t, AuthenticationException))

C15_DemandWithoutChallengeRaised ==
    \E t \in Callers :
        /\ Saw(t, "probe", "nochallenge")
        /\ RunRaised(t, AuthenticationException)
        /\ Count(t, "login") = 1
        /\ Ended(t)

(* ---------------------------------------------------------------------- *)
(* C16: when the solver returned an empty code (None or the empty string)  *)
(* the run makes no second submission and does not return; whatever the    *)
(* pre-validation answered (non-error status), it ends with                *)
(* AuthenticationException.                                                *)
(* ---------------------------------------------------------------------- *)
EmptyCodes == {None, EmptyStr}

SolvedEmpty(t, codes) == \E i \in EvIdx(t, "solve") : Tr(t)[i].res \in codes

C16_EmptyCodeRaises ==
    \A t \in Callers :
        SolvedEmpty(t, EmptyCodes) =>
            /\ Count(t, "login") = 1
            /\ run[t].status \in {"running", "raised"}
            /\ (RunOver(t) /\ ~Saw(t, "preval", "http") =>
                   RunRaised(t, AuthenticationException))

(* what holds of the code: the claim for a solver result of None *)
C16_NoneCodeRaises ==
    \A t \in Callers :
        SolvedEmpty(t, {None}) =>
            /\ Count(t, "login") = 1
            /\ run[t].status \in {"running", "raised"}
            /\ (RunOver(t) /\ ~Saw(t, "preval", "http") =>
                   RunRaised(t, AuthenticationException))

(* ---------------------------------------------------------------------- *)
(* C17: whenever a run is over (returned or raised) the stored             *)
(* verification code is empty, and the first submission of every run       *)
(* carries no code.                                                        *)
(* ---------------------------------------------------------------------- *)
C17_CodeDiesWithRun ==
    \A t \in Callers :
        /\ (RunOver(t) => ~Truthy(verify_code))
        /\ (Len(Tr(t)) >= 1 => Tr(t)[1].arg = None)

(* what holds of the code: a run that returned leaves no code behind, and  *)
(* a code is left behind only by a run that ended in the pre-validation    *)
C17_CodeLeftOnlyByPreval ==
    \A t \in Callers :
        /\ (run[t].status = "returned" => ~Truthy(verify_code))
        /\ (run[t].status = "raised" /\ Truthy(verify_code)
              /\ ~Truthy(run[t].preCode) =>
                 Tr(t)[Len(Tr(t))].ev = "preval")

(* reachable: the first submission of a run carries a code that an         *)
(* earlier run solved                                                      *)
C17_StaleCodeSubmitted ==
    \E t \in Callers :
        /\ Len(Tr(t)) >= 1
        /\ Tr(t)[1].ev = "login"
        /\ Tr(t)[1].arg \in Codes
        /\ run[t].preCode = Tr(t)[1].arg

(* ---------------------------------------------------------------------- *)
(* C18: a call of a business operation that met no session-expiry error,   *)
(* and a call of log_out, start no authentication run and send no probe,   *)
(* login, identity or token request; and no step of such a call changes    *)
(* the company id, the token header or the stored verification code.       *)
(* ---------------------------------------------------------------------- *)
QuietCall(t) ==
    \/ call[t].op \in WrappedOps /\ cnt[t].nBizExp = 0
    \/ call[t].op = "log_out"

NoAuthTraffic(t) ==
    /\ cnt[t].nCfg = 0
    /\ run[t] = NoRun
    /\ lastReq.kind \in {"none", "biz", "logout"}

C18_OnlyAuthMutatesSession ==
    /\ [](\A t \in Callers : QuietCall(t) => NoAuthTraffic(t))
    /\ [][\A t \in Callers :
            (QuietCall(t) /\ call'[t] = call[t] /\ cnt'[t].nBizExp = 0) =>
                UNCHANGED <<company_id, roarand, verify_code>>]_vars

C18_QuietControlCallReturned ==
    \E t \in Callers :
        /\ call[t].op = "active_power_control"
        /\ Ended(t)
        /\ sig[t].kind = "ret"
        /\ cnt[t].nBizExp = 0
        /\ cnt[t].nBizReq = 2
        /\ company_id \in MoDns

(* ---------------------------------------------------------------------- *)
(* C19: the solver is built lazily and once: the solver object changes     *)
(* only from absent to a first object, and only in a run whose probe       *)
(* detected a challenge (so it is absent as long as no probe did); an      *)
(* existing solver object is never replaced.                               *)
(* ---------------------------------------------------------------------- *)
FirstSolvers == {"onnx.Solver#1", "tf.Solver#1"}

C19_SolverLazyAndOnce ==
    /\ [](solver /= None => solver \in FirstSolvers /\ model_path /= None)
    /\ [][solver' /= solver =>
            /\ solver = None
            /\ \E t \in Callers :
                 \E i \in 1..Len(run'[t].trace) :
                    /\ run'[t].trace[i].ev = "probe"
                    /\ run'[t].trace[i].res = "challenge"]_vars

C19_SolverReused ==
    \E t \in Callers :
        /\ run[t].preSolver \in FirstSolvers
        /\ \E i \in EvIdx(t, "solve") : Tr(t)[i].arg = run[t].preSolver
        /\ solver = run[t].preSolver

(* ---------------------------------------------------------------------- *)
(* C20: with two callers, no business request is sent by one caller while  *)
(* the other's authentication run has stored its company id and not yet    *)
(* its token, and two authentication runs are never both in that           *)
(* half-updated position.                                                  *)
(* ---------------------------------------------------------------------- *)
HalfUpdated(t) ==
    \E i \in 1..Len(stack[t]) :
        stack[t][i].fn = "_configure_session" /\ stack[t][i].pc = "token"

C20_NoHalfUpdatedUse ==
    \A t \in Callers :
        /\ (lastReq.kind = "biz" /\ lastReq.by = t => ~HalfUpdated(Other(t)))
        /\ ~(HalfUpdated(t) /\ HalfUpdated(Other(t)))

(* reachable: a business request that carries the token of one run while   *)
(* the stored company id is already the one of another run                 *)
C20_MixedPairUsed ==
    \E t \in Callers :
        /\ lastReq.kind = "biz"
        /\ lastReq.by = t
        /\ HalfUpdated(Other(t))
        /\ lastReq.hdr \in Tokens
        /\ company_id \in MoDns
        /\ company_id /= run[Other(t)].preCompany

(* ---------------------------------------------------------------------- *)
(* C21: a run that ended by raising leaves the company id and the token    *)
(* header as they were when the run started.                               *)
(* ---------------------------------------------------------------------- *)
C21_AllOrNothing ==
    \A t \in Callers :
        run[t].status = "raised" =>
            /\ company_id = run[t].preCompany
            /\ roarand = run[t].preRoarand

(* what holds of the code: a run that raised leaves the token header as it *)
(* was, and the company id as it was unless its identity request was       *)
(* answered and the run failed in the token request that follows           *)
C21_OnlyTokenStepHalfUpdates ==
    \A t \in Callers :
        run[t].status = "raised" =>
            /\ roarand = run[t].preRoarand
            /\ (company_id /= run[t].preCompany =>
                   /\ Tr(t)[Len(Tr(t))].ev = "token"
                   /\ company_id = Tr(t)[Len(Tr(t)) - 1].res)

(* reachable: the company id of a failed run next to the token of an       *)
(* earlier run                                                             *)
C21_MixedPairAfterFailure ==
    \E t \in Callers :
        /\ run[t].status = "raised"
        /\ run[t].preCompany \in MoDns
        /\ company_id \in MoDns
        /\ company_id /= run[t].preCompany
        /\ roarand = run[t].preRoarand
        /\ roarand \in Tokens

(* ---------------------------------------------------------------------- *)
(* C22: the device-list request of get_device_ids (also when reached       *)
(* through active_power_control) is never sent while the company id is     *)
(* unset.                                                                  *)
(* ---------------------------------------------------------------------- *)
C22_DeviceListHasCompany ==
    (lastReq.kind = "biz" /\ lastReq.op = "get_device_ids") =>
        lastReq.parentDn /= None

(* what holds of the code: a client that logged in at construction sends   *)
(* the request with a company id; only a client built around a supplied    *)
(* session, which has not authenticated since, sends it without            *)
C22_UnsetOnlyWithoutAuthentication ==
    (lastReq.kind = "biz" /\ lastReq.op = "get_device_ids"
       /\ lastReq.parentDn = None) =>
        /\ company_id = None
        /\ authTok = None
        /\ lastReq.hdr = None

====
